---- MODULE Spec2Model ----
(***************************************************************************)
(* Model of the parallel-vectorize thread dispatcher (ParallelUFunc) and  *)
(* of the worker it launches (UFuncCore): chunk planning, the per-worker  *)
(* work queues guarded by a compare-and-exchange spinlock, local draining *)
(* and work stealing.  Source: src/src/parallel_vectorize.py.             *)
(*                                                                         *)
(* The dispatcher and every worker advance one shared-memory access at a  *)
(* time.  The two stack arrays of ParallelUFunc.body (workqueues and      *)
(* contexts) are allocated without initialisation: a field that was never *)
(* stored to holds an arbitrary word, which the model draws from a small  *)
(* set at the first load and keeps from then on.                          *)
(***************************************************************************)
EXTENDS Integers, Sequences, FiniteSets, TLC

\* ------------------------------------------------------------------ bounds
MaxN == 3
MaxT == 2
MaxPlanN == 10
MaxPlanT == 8
MaxGarbage == 1
MaxStride == 2

\* Words an uninitialised index or counter field may hold.
Garbage == (0 - MaxGarbage) .. MaxGarbage
\* Words an uninitialised lock field may hold: unlocked, or anything else.
GarbageLock == {0, 1}

VARIABLES
    N,               \* dimensions[0]: the number of work items
    T,               \* ThreadCount: the specialised maximum number of threads
    dpc,             \* position of the dispatcher (ParallelUFunc.body)
    num_thread,      \* the dispatcher's local variable num_thread
    ChunkSize,       \* the dispatcher's local variable ChunkSize
    cnum,            \* common.num_thread, shared with every worker
    di,              \* index of the dispatcher's current for_range loop
    total_completed, \* the dispatcher's local variable total_completed
    wq,              \* workqueues[i]: next, last, lock
    wqSet,           \* wqSet[i]: the fields of workqueues[i] holding a stored or loaded word
    ctx,             \* contexts[i]: id, completed
    ctxSet,          \* the contexts whose completed field holds a stored or loaded word
    oob,             \* stores made outside the workqueues array
    pc,              \* position of each worker thread (UFuncCore.body)
    item,            \* each worker's local variable item
    last,            \* each worker's local variable last
    steal_continue,  \* each worker's local variable steal_continue
    si,              \* each worker's for_range index in _do_work_stealing_innerloop
    calls,           \* per worker, the kernel invocations it made, in order
    frozen,          \* workers the scheduler no longer runs
    frz,             \* contents of a frozen worker's queue at the time it was frozen
    args,            \* common.args: the base address of every input and of the output
    steps,           \* common.steps: the byte stride of every input and of the output
    mem              \* the memory holding the input and output buffers

dvars == <<dpc, num_thread, ChunkSize, cnum, di, total_completed>>
mvars == <<wq, wqSet, ctx, ctxSet, oob>>
wvars == <<pc, item, last, steal_continue, si, calls>>
vars == <<N, T, args, steps, mem, dvars, mvars, wvars, frozen, frz>>

Slots == 0 .. (T - 1)

\* ------------------------------------------------------------------ helpers
RECURSIVE SumCompleted(_, _)
SumCompleted(c, n) == IF n = 0 THEN 0 ELSE c[n - 1] + SumCompleted(c, n - 1)

\* ------------------------------------------------------------------ memory
\* UFuncCoreGeneric.specialize, line 404: the kernel takes two arguments.
ARGTYS == <<"x", "y">>

\* The items a worker may pass to the kernel: the indices of the call and the
\* words an uninitialised queue may yield.
Below == MaxGarbage * MaxStride
Above == (MaxN + MaxGarbage) * MaxStride
RegionLen == Below + Above + 1

\* The caller's buffers lie one after the other, each with room on both sides.
Base(k) == (k - 1) * RegionLen + Below
Addr == 0 .. ((Len(ARGTYS) + 1) * RegionLen - 1)

\* The caller's memory on entry: every cell holds a word of its own.
InitMem == [a \in Addr |-> a]

\* Contiguous buffers of one-byte elements.
UnitSteps == [k \in 1 .. (Len(ARGTYS) + 1) |-> 1]

\* The kernel behind common.func: a pure function of the loaded arguments.
Kernel(indata) == indata[1] * Cardinality(Addr) + indata[2]

\* ElemAddr ignoring the stride.
ElemAddrNoStride(B, S, it) == B + it

\* _do_work, line 379: get_offset, the address B[item * S].
ElemAddr(B, S, it) == B + it * S

\* _do_work, lines 382-392: every argument is loaded from its buffer, the
\* kernel is called, and the result is stored into the output buffer.
DoWork(m, it) ==
    LET indata == [k \in 1 .. Len(ARGTYS) |-> m[ElemAddr(args[k], steps[k], it)]]
        out_index == Len(ARGTYS) + 1
    IN [m EXCEPT ![ElemAddr(args[out_index], steps[out_index], it)] = Kernel(indata)]

\* ------------------------------------------------------------------ initial state
\* Entry to ParallelUFunc.body with dimensions[0] = n, specialised to t threads.
InitOf(maxN, maxT) ==
    /\ N \in 0 .. maxN
    /\ T \in 1 .. maxT
    /\ dpc = "setup"
    /\ num_thread = 0
    /\ ChunkSize = 0
    /\ cnum = 0
    /\ di = 0
    /\ total_completed = 0
    /\ wq = [i \in Slots |-> [next |-> 0, last |-> 0, lock |-> 0]]
    /\ wqSet = [i \in Slots |-> {}]
    /\ ctx = [i \in Slots |-> [id |-> 0, completed |-> 0]]
    /\ ctxSet = {}
    /\ oob = {}
    /\ pc = [i \in Slots |-> "none"]
    /\ item = [i \in Slots |-> 0]
    /\ last = [i \in Slots |-> 0]
    /\ steal_continue = [i \in Slots |-> 0]
    /\ si = [i \in Slots |-> 0]
    /\ calls = [i \in Slots |-> <<>>]
    /\ frozen = {}
    /\ frz = <<>>
    /\ args = [k \in 1 .. (Len(ARGTYS) + 1) |-> Base(k)]
    /\ mem = InitMem

Init == InitOf(MaxN, MaxT) /\ steps = UnitSteps

\* The process lives until an unreachable instruction kills it.
Alive == dpc # "aborted" /\ \A v \in Slots : pc[v] # "killed"

\* ------------------------------------------------------------------ dispatcher
\* body, lines 121-135: num_thread starts as ThreadCount and is copied into
\* common.num_thread at once.
Setup ==
    /\ Alive
    /\ dpc = "setup"
    /\ num_thread' = T
    /\ cnum' = T
    /\ dpc' = "plan"
    /\ UNCHANGED <<N, T, args, steps, mem, ChunkSize, di, total_completed, mvars, wvars, frozen, frz>>

\* PlanChunk without the reduction of num_thread when the chunk size is zero.
PlanChunkNoReduce(n, nt) ==
    IF n \div nt = 0
    THEN [chunk |-> 1, threads |-> nt]
    ELSE [chunk |-> n \div nt, threads |-> nt]

\* body, lines 143-148: the chunk size and the effective number of threads.
PlanChunk(n, nt) ==
    IF n \div nt = 0
    THEN [chunk |-> 1, threads |-> n]
    ELSE [chunk |-> n \div nt, threads |-> nt]

Plan ==
    /\ Alive
    /\ dpc = "plan"
    /\ ChunkSize' = PlanChunk(N, num_thread).chunk
    /\ num_thread' = PlanChunk(N, num_thread).threads
    /\ di' = 0
    /\ dpc' = "popq"
    /\ UNCHANGED <<N, T, args, steps, mem, cnum, total_completed, mvars, wvars, frozen, frz>>

\* _populate_workqueues, lines 185-187: the queue stored for index i.
QueueOf(i, chunk) == [next |-> i * chunk, last |-> (i + 1) * chunk, lock |-> 0]

PopulateQueue ==
    /\ Alive
    /\ dpc = "popq"
    /\ di < num_thread
    /\ wq' = [wq EXCEPT ![di] = QueueOf(di, ChunkSize)]
    /\ wqSet' = [wqSet EXCEPT ![di] = {"next", "last", "lock"}]
    /\ di' = di + 1
    /\ UNCHANGED <<N, T, args, steps, mem, dpc, num_thread, ChunkSize, cnum, total_completed,
                   ctx, ctxSet, oob, wvars, frozen, frz>>

\* LastEnd leaving the last queue at a whole number of chunks.
LastEndNoRemainder(n, chunk, nt) == nt * chunk

\* _populate_workqueues, lines 189-190: the end stored into the last queue.
LastEnd(n, chunk, nt) == n

\* workqueues[num_thread - 1].last = N.  With num_thread = 0 the store goes to
\* index -1, outside the array: it lands in whatever the frame holds there,
\* which may be the completed field of one of the contexts.
PopulateLast ==
    /\ Alive
    /\ dpc = "popq"
    /\ di >= num_thread
    /\ IF num_thread - 1 \in Slots
       THEN /\ wq' = [wq EXCEPT ![num_thread - 1].last = LastEnd(N, ChunkSize, num_thread)]
            /\ wqSet' = [wqSet EXCEPT ![num_thread - 1] = @ \cup {"last"}]
            /\ UNCHANGED <<ctx, ctxSet, oob>>
       ELSE /\ oob' = oob \cup {[slot |-> num_thread - 1, field |-> "last",
                                 val |-> LastEnd(N, ChunkSize, num_thread)]}
            /\ \E k \in {-1} \cup Slots :
                 IF k = -1
                 THEN UNCHANGED <<ctx, ctxSet>>
                 ELSE /\ ctx' = [ctx EXCEPT ![k].completed =
                                     LastEnd(N, ChunkSize, num_thread)]
                      /\ ctxSet' = ctxSet \cup {k}
            /\ UNCHANGED <<wq, wqSet>>
    /\ di' = 0
    /\ dpc' = "popc"
    /\ UNCHANGED <<N, T, args, steps, mem, num_thread, ChunkSize, cnum, total_completed, wvars, frozen, frz>>

\* _populate_context, lines 196-201.
PopulateContext ==
    /\ Alive
    /\ dpc = "popc"
    /\ di < num_thread
    /\ ctx' = [ctx EXCEPT ![di] = [id |-> di, completed |-> 0]]
    /\ ctxSet' = ctxSet \cup {di}
    /\ di' = di + 1
    /\ UNCHANGED <<N, T, args, steps, mem, dpc, num_thread, ChunkSize, cnum, total_completed,
                   wq, wqSet, oob, wvars, frozen, frz>>

PopulateContextEnd ==
    /\ Alive
    /\ dpc = "popc"
    /\ di >= num_thread
    /\ di' = 0
    /\ dpc' = "create"
    /\ UNCHANGED <<N, T, args, steps, mem, num_thread, ChunkSize, cnum, total_completed, mvars, wvars,
                   frozen, frz>>

\* _dispatch_worker, lines 216-218: pthread_create of the worker on contexts[i].
CreateThread ==
    /\ Alive
    /\ dpc = "create"
    /\ di < num_thread
    /\ pc' = [pc EXCEPT ![di] = "drain_lock"]
    /\ di' = di + 1
    /\ UNCHANGED <<N, T, args, steps, mem, dpc, num_thread, ChunkSize, cnum, total_completed, mvars,
                   item, last, steal_continue, si, calls, frozen, frz>>

CreateEnd ==
    /\ Alive
    /\ dpc = "create"
    /\ di >= num_thread
    /\ di' = 0
    /\ dpc' = "join"
    /\ UNCHANGED <<N, T, args, steps, mem, num_thread, ChunkSize, cnum, total_completed, mvars, wvars,
                   frozen, frz>>

\* JoinThread returning without waiting for the thread to terminate.
JoinThreadNoWait ==
    /\ Alive
    /\ dpc = "join"
    /\ di < num_thread
    /\ di' = di + 1
    /\ UNCHANGED <<N, T, args, steps, mem, dpc, num_thread, ChunkSize, cnum, total_completed,
                   mvars, wvars, frozen, frz>>

\* _dispatch_worker, lines 220-221: pthread_join blocks until thread i has returned.
JoinThread ==
    /\ Alive
    /\ dpc = "join"
    /\ di < num_thread
    /\ pc[di] = "done"
    /\ di' = di + 1
    /\ UNCHANGED <<N, T, args, steps, mem, dpc, num_thread, ChunkSize, cnum, total_completed, mvars, wvars,
                   frozen, frz>>

JoinEnd ==
    /\ Alive
    /\ dpc = "join"
    /\ di >= num_thread
    /\ di' = 0
    /\ dpc' = "check"
    /\ UNCHANGED <<N, T, args, steps, mem, num_thread, ChunkSize, cnum, total_completed, mvars, wvars,
                   frozen, frz>>

\* body, lines 163-165: the contexts whose completed counters are summed.
CheckedContexts(t, nt) == 0 .. (t - 1)

\* body, lines 162-177: the race check.  A context that was never stored to
\* contributes an arbitrary word.  A mismatch reaches the unreachable
\* instruction, which either kills the process or falls through to the return.
PostCheck ==
    /\ Alive
    /\ dpc = "check"
    /\ \E g \in [CheckedContexts(T, num_thread) -> Garbage] :
         LET c == [t \in CheckedContexts(T, num_thread) |->
                     IF t \in ctxSet THEN ctx[t].completed ELSE g[t]]
             total == SumCompleted(c, Cardinality(CheckedContexts(T, num_thread)))
         IN /\ \A t \in CheckedContexts(T, num_thread) \cap ctxSet : g[t] = 0
            /\ total_completed' = total
            /\ ctx' = [t \in Slots |->
                         IF t \in CheckedContexts(T, num_thread)
                         THEN [ctx[t] EXCEPT !.completed = c[t]] ELSE ctx[t]]
            /\ ctxSet' = ctxSet \cup CheckedContexts(T, num_thread)
            /\ IF total = N
               THEN dpc' = "returned"
               ELSE dpc' \in {"aborted", "returned"}
    /\ UNCHANGED <<N, T, args, steps, mem, num_thread, ChunkSize, cnum, di, wq, wqSet, oob, wvars,
                   frozen, frz>>

\* ------------------------------------------------------------------ workers
\* A worker runs while the process lives and the scheduler runs it.
Runs(w) == Alive /\ w \notin frozen

\* LockFree taking the lock whatever word the exchange found.
LockFreeAlways(word) == TRUE

\* WorkQueue.Lock, lines 43-45: the compare-and-exchange 0 -> 1 succeeds, and
\* the loop ends, when the word it found is unlocked.
LockFree(word) == word = 0

\* WorkQueue.Unlock, lines 56-59: the compare-and-exchange 1 -> 0 found locked.
UnlockOk(word) == word = 1

\* The words a load of workqueues[q].f may return.
Load(q, f, garbage) == IF f \in wqSet[q] THEN {wq[q][f]} ELSE garbage

\* Lock on queue q by worker w, going to position to.  A failed attempt leaves
\* the worker where it is; it changes the state only in fixing the word of a
\* lock field that was never stored to.
Lock(w, q, to) ==
    \E word \in Load(q, "lock", GarbageLock) :
        IF LockFree(word)
        THEN /\ wq' = [wq EXCEPT ![q].lock = 1]
             /\ wqSet' = [wqSet EXCEPT ![q] = @ \cup {"lock"}]
             /\ pc' = [pc EXCEPT ![w] = to]
        ELSE /\ "lock" \notin wqSet[q]
             /\ wq' = [wq EXCEPT ![q].lock = word]
             /\ wqSet' = [wqSet EXCEPT ![q] = @ \cup {"lock"}]
             /\ pc' = pc

\* Unlock of queue q by worker w, going to position to.  Finding the word not
\* locked reaches the unreachable instruction: the process is killed, or the
\* worker carries on.
Unlock(w, q, to) ==
    IF UnlockOk(wq[q].lock)
    THEN /\ wq' = [wq EXCEPT ![q].lock = 0]
         /\ pc' = [pc EXCEPT ![w] = to]
    ELSE /\ wq' = wq
         /\ pc' \in {[pc EXCEPT ![w] = "killed"], [pc EXCEPT ![w] = to]}

\* _do_workqueue, line 255.
DrainLock(w) ==
    /\ Runs(w)
    /\ pc[w] = "drain_lock"
    /\ Lock(w, ctx[w].id, "drain_item")
    /\ UNCHANGED <<N, T, args, steps, mem, dvars, ctx, ctxSet, oob, item, last, steal_continue, si, calls,
                   frozen, frz>>

\* _do_workqueue, line 257: item = workqueue.next.
DrainItem(w) ==
    /\ Runs(w)
    /\ pc[w] = "drain_item"
    /\ item' = [item EXCEPT ![w] = wq[ctx[w].id].next]
    /\ pc' = [pc EXCEPT ![w] = "drain_inc"]
    /\ UNCHANGED <<N, T, args, steps, mem, dvars, mvars, last, steal_continue, si, calls, frozen, frz>>

\* _do_workqueue, line 258: workqueue.next += 1, whatever item was read.
DrainInc(w) ==
    /\ Runs(w)
    /\ pc[w] = "drain_inc"
    /\ wq' = [wq EXCEPT ![ctx[w].id].next = @ + 1]
    /\ pc' = [pc EXCEPT ![w] = "drain_last"]
    /\ UNCHANGED <<N, T, args, steps, mem, dvars, wqSet, ctx, ctxSet, oob, item, last, steal_continue, si,
                   calls, frozen, frz>>

\* _do_workqueue, line 259: last = workqueue.last.
DrainLast(w) ==
    /\ Runs(w)
    /\ pc[w] = "drain_last"
    /\ last' = [last EXCEPT ![w] = wq[ctx[w].id].last]
    /\ pc' = [pc EXCEPT ![w] = "drain_unlock"]
    /\ UNCHANGED <<N, T, args, steps, mem, dvars, mvars, item, steal_continue, si, calls, frozen, frz>>

\* _do_workqueue, line 261.
DrainUnlock(w) ==
    /\ Runs(w)
    /\ pc[w] = "drain_unlock"
    /\ Unlock(w, ctx[w].id, "drain_test")
    /\ UNCHANGED <<N, T, args, steps, mem, dvars, wqSet, ctx, ctxSet, oob, item, last, steal_continue, si,
                   calls, frozen, frz>>

\* Exhausted ending the drain loop one item early.
ExhaustedEarly(it, la) == it + 1 >= la

\* _do_workqueue, line 263: the local queue is exhausted.
Exhausted(it, la) == it >= la

\* _do_workqueue, lines 263-265, and _do_work_stealing, line 274.
DrainTest(w) ==
    /\ Runs(w)
    /\ pc[w] = "drain_test"
    /\ IF Exhausted(item[w], last[w])
       THEN /\ steal_continue' = [steal_continue EXCEPT ![w] = 1]
            /\ pc' = [pc EXCEPT ![w] = "steal_loop"]
       ELSE /\ steal_continue' = steal_continue
            /\ pc' = [pc EXCEPT ![w] = "drain_work"]
    /\ UNCHANGED <<N, T, args, steps, mem, dvars, mvars, item, last, si, calls, frozen, frz>>

\* _do_workqueue, line 267: the kernel is invoked on item.
DrainWork(w) ==
    /\ Runs(w)
    /\ pc[w] = "drain_work"
    /\ calls' = [calls EXCEPT ![w] = Append(@, [idx |-> item[w], kind |-> "drain",
                                                 q |-> ctx[w].id])]
    /\ mem' = DoWork(mem, item[w])
    /\ pc' = [pc EXCEPT ![w] = "drain_count"]
    /\ UNCHANGED <<N, T, args, steps, dvars, mvars, item, last, steal_continue, si, frozen, frz>>

\* _do_workqueue, line 268: completed += 1.
DrainCount(w) ==
    /\ Runs(w)
    /\ pc[w] = "drain_count"
    /\ ctx' = [ctx EXCEPT ![w].completed = @ + 1]
    /\ pc' = [pc EXCEPT ![w] = "drain_lock"]
    /\ UNCHANGED <<N, T, args, steps, mem, dvars, wq, wqSet, ctxSet, oob, item, last, steal_continue, si,
                   calls, frozen, frz>>

\* _do_work_stealing, lines 278-283, and body, line 247.
StealLoop(w) ==
    /\ Runs(w)
    /\ pc[w] = "steal_loop"
    /\ IF steal_continue[w] # 0
       THEN /\ steal_continue' = [steal_continue EXCEPT ![w] = 0]
            /\ si' = [si EXCEPT ![w] = 0]
            /\ pc' = [pc EXCEPT ![w] = "steal_for"]
       ELSE /\ UNCHANGED <<steal_continue, si>>
            /\ pc' = [pc EXCEPT ![w] = "done"]
    /\ UNCHANGED <<N, T, args, steps, mem, dvars, mvars, item, last, calls, frozen, frz>>

\* StealFor without the test that skips the worker's own queue.
StealForNoSkip(w) ==
    /\ Runs(w)
    /\ pc[w] = "steal_for"
    /\ si' = si
    /\ pc' = [pc EXCEPT ![w] = IF si[w] >= cnum THEN "steal_loop" ELSE "steal_lock"]
    /\ UNCHANGED <<N, T, args, steps, mem, dvars, mvars, item, last, steal_continue, calls,
                   frozen, frz>>

\* _do_work_stealing_innerloop, lines 291-292: i runs over common.num_thread
\* queues and skips the worker's own.
StealFor(w) ==
    /\ Runs(w)
    /\ pc[w] = "steal_for"
    /\ IF si[w] >= cnum
       THEN /\ si' = si
            /\ pc' = [pc EXCEPT ![w] = "steal_loop"]
       ELSE IF si[w] # ctx[w].id
            THEN /\ si' = si
                 /\ pc' = [pc EXCEPT ![w] = "steal_lock"]
            ELSE /\ si' = [si EXCEPT ![w] = @ + 1]
                 /\ pc' = pc
    /\ UNCHANGED <<N, T, args, steps, mem, dvars, mvars, item, last, steal_continue, calls, frozen, frz>>

\* _do_work_stealing_check, line 303.
StealLock(w) ==
    /\ Runs(w)
    /\ pc[w] = "steal_lock"
    /\ Lock(w, si[w], "steal_test")
    /\ UNCHANGED <<N, T, args, steps, mem, dvars, ctx, ctxSet, oob, item, last, steal_continue, si, calls,
                   frozen, frz>>

\* StealAvailable with the comparison off by one.
StealAvailableOrEqual(nx, la) == nx <= la

\* _do_work_stealing_check, line 307: the other queue has work left.
StealAvailable(nx, la) == nx < la

\* _do_work_stealing_check, line 307: next and last of the other queue are loaded.
StealTest(w) ==
    /\ Runs(w)
    /\ pc[w] = "steal_test"
    /\ \E nx \in Load(si[w], "next", Garbage), la \in Load(si[w], "last", Garbage) :
         /\ wq' = [wq EXCEPT ![si[w]].next = nx, ![si[w]].last = la]
         /\ wqSet' = [wqSet EXCEPT ![si[w]] = @ \cup {"next", "last"}]
         /\ pc' = [pc EXCEPT ![w] = IF StealAvailable(nx, la)
                                    THEN "steal_dec" ELSE "steal_unlock_else"]
    /\ UNCHANGED <<N, T, args, steps, mem, dvars, ctx, ctxSet, oob, item, last, steal_continue, si, calls,
                   frozen, frz>>

\* StealDec taking the item from the head of the other queue.
StealDecHead(w) ==
    /\ Runs(w)
    /\ pc[w] = "steal_dec"
    /\ wq' = [wq EXCEPT ![si[w]].next = @ + 1]
    /\ pc' = [pc EXCEPT ![w] = "steal_item"]
    /\ UNCHANGED <<N, T, args, steps, mem, dvars, wqSet, ctx, ctxSet, oob, item, last,
                   steal_continue, si, calls, frozen, frz>>

\* _do_work_stealing_check, line 309: otherqueue.last -= 1.
StealDec(w) ==
    /\ Runs(w)
    /\ pc[w] = "steal_dec"
    /\ wq' = [wq EXCEPT ![si[w]].last = @ - 1]
    /\ pc' = [pc EXCEPT ![w] = "steal_item"]
    /\ UNCHANGED <<N, T, args, steps, mem, dvars, wqSet, ctx, ctxSet, oob, item, last, steal_continue, si,
                   calls, frozen, frz>>

\* StolenItem taking the end of the queue as it was before the decrement.
StolenItemBeforeDec(la) == la + 1

\* _do_work_stealing_check, line 310: the item stolen from a queue whose last is la.
StolenItem(la) == la

\* StealItem going on to the kernel call without the Unlock.
StealItemNoUnlock(w) ==
    /\ Runs(w)
    /\ pc[w] = "steal_item"
    /\ item' = [item EXCEPT ![w] = StolenItem(wq[si[w]].last)]
    /\ pc' = [pc EXCEPT ![w] = "steal_work"]
    /\ UNCHANGED <<N, T, args, steps, mem, dvars, mvars, last, steal_continue, si, calls,
                   frozen, frz>>

\* _do_work_stealing_check, line 310: item = otherqueue.last.
StealItem(w) ==
    /\ Runs(w)
    /\ pc[w] = "steal_item"
    /\ item' = [item EXCEPT ![w] = StolenItem(wq[si[w]].last)]
    /\ pc' = [pc EXCEPT ![w] = "steal_unlock"]
    /\ UNCHANGED <<N, T, args, steps, mem, dvars, mvars, last, steal_continue, si, calls, frozen, frz>>

\* _do_work_stealing_check, line 312.
StealUnlock(w) ==
    /\ Runs(w)
    /\ pc[w] = "steal_unlock"
    /\ Unlock(w, si[w], "steal_work")
    /\ UNCHANGED <<N, T, args, steps, mem, dvars, wqSet, ctx, ctxSet, oob, item, last, steal_continue, si,
                   calls, frozen, frz>>

\* _do_work_stealing_check, line 315: the kernel is invoked on the stolen item.
StealWork(w) ==
    /\ Runs(w)
    /\ pc[w] = "steal_work"
    /\ calls' = [calls EXCEPT ![w] = Append(@, [idx |-> item[w], kind |-> "steal",
                                                 q |-> si[w]])]
    /\ mem' = DoWork(mem, item[w])
    /\ pc' = [pc EXCEPT ![w] = "steal_count"]
    /\ UNCHANGED <<N, T, args, steps, dvars, mvars, item, last, steal_continue, si, frozen, frz>>

\* _do_work_stealing_check, line 316: completed += 1.
StealCount(w) ==
    /\ Runs(w)
    /\ pc[w] = "steal_count"
    /\ ctx' = [ctx EXCEPT ![w].completed = @ + 1]
    /\ pc' = [pc EXCEPT ![w] = "steal_mark"]
    /\ UNCHANGED <<N, T, args, steps, mem, dvars, wq, wqSet, ctxSet, oob, item, last, steal_continue, si,
                   calls, frozen, frz>>

\* StealMark leaving steal_continue as it is: a sweep that stole is not
\* followed by another one.
StealMarkNoFlag(w) ==
    /\ Runs(w)
    /\ pc[w] = "steal_mark"
    /\ steal_continue' = steal_continue
    /\ si' = [si EXCEPT ![w] = @ + 1]
    /\ pc' = [pc EXCEPT ![w] = "steal_for"]
    /\ UNCHANGED <<N, T, args, steps, mem, dvars, mvars, item, last, calls, frozen, frz>>

\* _do_work_stealing_check, line 319, and the step of the for_range of line 291.
StealMark(w) ==
    /\ Runs(w)
    /\ pc[w] = "steal_mark"
    /\ steal_continue' = [steal_continue EXCEPT ![w] = 1]
    /\ si' = [si EXCEPT ![w] = @ + 1]
    /\ pc' = [pc EXCEPT ![w] = "steal_for"]
    /\ UNCHANGED <<N, T, args, steps, mem, dvars, mvars, item, last, calls, frozen, frz>>

\* StealUnlockElse releasing the worker's own queue instead of the other one.
StealUnlockElseOwn(w) ==
    /\ Runs(w)
    /\ pc[w] = "steal_unlock_else"
    /\ Unlock(w, ctx[w].id, "steal_for")
    /\ si' = [si EXCEPT ![w] = @ + 1]
    /\ UNCHANGED <<N, T, args, steps, mem, dvars, wqSet, ctx, ctxSet, oob, item, last,
                   steal_continue, calls, frozen, frz>>

\* _do_work_stealing_check, line 322, and the step of the for_range of line 291.
StealUnlockElse(w) ==
    /\ Runs(w)
    /\ pc[w] = "steal_unlock_else"
    /\ Unlock(w, si[w], "steal_for")
    /\ si' = [si EXCEPT ![w] = @ + 1]
    /\ UNCHANGED <<N, T, args, steps, mem, dvars, wqSet, ctx, ctxSet, oob, item, last, steal_continue,
                   calls, frozen, frz>>

\* The scheduler stops running worker w, which holds no queue lock, for good.
\* The contents of its queue at that moment are recorded.
Freeze(w) ==
    /\ Alive
    /\ frozen = {}
    /\ pc[w] \notin {"none", "done", "drain_item", "drain_inc", "drain_last", "drain_unlock",
                     "steal_test", "steal_dec", "steal_item", "steal_unlock",
                     "steal_unlock_else"}
    /\ frozen' = {w}
    /\ frz' = [next |-> wq[w].next, last |-> wq[w].last]
    /\ UNCHANGED <<N, T, args, steps, mem, dvars, mvars, wvars>>

\* Any step of worker w.
WorkerStep(w) ==
    \/ DrainLock(w) \/ DrainItem(w) \/ DrainInc(w) \/ DrainLast(w) \/ DrainUnlock(w)
    \/ DrainTest(w) \/ DrainWork(w) \/ DrainCount(w)
    \/ StealLoop(w) \/ StealFor(w) \/ StealLock(w) \/ StealTest(w) \/ StealDec(w)
    \/ StealItem(w) \/ StealUnlock(w) \/ StealWork(w) \/ StealCount(w) \/ StealMark(w)
    \/ StealUnlockElse(w)

\* Any step of the dispatcher.
DispatcherStep ==
    \/ Setup \/ Plan \/ PopulateQueue \/ PopulateLast \/ PopulateContext
    \/ PopulateContextEnd \/ CreateThread \/ CreateEnd \/ JoinThread \/ JoinEnd \/ PostCheck

\* The operating system schedules every thread that can take a step.
Fairness ==
    /\ WF_vars(DispatcherStep)
    /\ \A w \in 0 .. (MaxT - 1) : WF_vars(w \in Slots /\ WorkerStep(w))

\* ------------------------------------------------------------------ specifications
Next ==
    \/ Setup
    \/ Plan
    \/ PopulateQueue
    \/ PopulateLast
    \/ PopulateContext
    \/ PopulateContextEnd
    \/ CreateThread
    \/ CreateEnd
    \/ JoinThread
    \/ JoinEnd
    \/ PostCheck
    \/ \E w \in Slots : DrainLock(w)
    \/ \E w \in Slots : DrainItem(w)
    \/ \E w \in Slots : DrainInc(w)
    \/ \E w \in Slots : DrainLast(w)
    \/ \E w \in Slots : DrainUnlock(w)
    \/ \E w \in Slots : DrainTest(w)
    \/ \E w \in Slots : DrainWork(w)
    \/ \E w \in Slots : DrainCount(w)
    \/ \E w \in Slots : StealLoop(w)
    \/ \E w \in Slots : StealFor(w)
    \/ \E w \in Slots : StealLock(w)
    \/ \E w \in Slots : StealTest(w)
    \/ \E w \in Slots : StealDec(w)
    \/ \E w \in Slots : StealItem(w)
    \/ \E w \in Slots : StealUnlock(w)
    \/ \E w \in Slots : StealWork(w)
    \/ \E w \in Slots : StealCount(w)
    \/ \E w \in Slots : StealMark(w)
    \/ \E w \in Slots : StealUnlockElse(w)

Spec == Init /\ [][Next]_vars

\* The dispatcher alone, from its entry to the last pthread_create, on larger
\* inputs: no worker is scheduled yet.
InitPlan == InitOf(MaxPlanN, MaxPlanT) /\ steps = UnitSteps

PlanNext ==
    \/ Setup
    \/ Plan
    \/ PopulateQueue
    \/ PopulateLast
    \/ PopulateContext
    \/ PopulateContextEnd
    \/ CreateThread
    \/ CreateEnd

PlanSpec == InitPlan /\ [][PlanNext]_vars

\* The dispatch call under fair scheduling of the dispatcher and the workers.
FairSpec == Init /\ [][Next]_vars /\ Fairness

\* Two workers, one of which the scheduler may stop for good while it holds
\* no lock; the other threads are scheduled fairly.
InitSteal == InitOf(MaxN, MaxT) /\ T = 2 /\ N >= 2 /\ steps = UnitSteps

StealNext ==
    \/ Next
    \/ \E w \in Slots : Freeze(w)

StealSpec == InitSteal /\ [][StealNext]_vars /\ Fairness

\* Dispatch calls of two threads over buffers of any strides, a zero stride
\* included.
InitKernel ==
    /\ InitOf(MaxN, MaxT)
    /\ T = 2
    /\ N >= T
    /\ steps \in [1 .. (Len(ARGTYS) + 1) -> 0 .. MaxStride]

KernelSpec == InitKernel /\ [][Next]_vars

\* A store from outside the lock protocol overwrites the lock word of queue q
\* while a worker holds it: with unlocked, or with a word that is neither
\* unlocked nor locked.
CorruptLock(q) ==
    /\ Alive
    /\ "lock" \in wqSet[q]
    /\ wq[q].lock = 1
    /\ \E word \in {0, 2} : wq' = [wq EXCEPT ![q].lock = word]
    /\ UNCHANGED <<N, T, args, steps, mem, dvars, wqSet, ctx, ctxSet, oob, wvars, frozen, frz>>

\* Dispatch calls with two threads and a queue for each, during which lock words may
\* be overwritten.
InitFault == InitOf(MaxN, MaxT) /\ T = 2 /\ N >= T /\ steps = UnitSteps

FaultNext ==
    \/ Next
    \/ \E q \in Slots : CorruptLock(q)

FaultSpec == InitFault /\ [][FaultNext]_vars

\* _dispatch_worker, lines 216-218: pthread_create fails.  No thread is
\* started, threads[i] keeps its uninitialised word, and the returned error
\* code is dropped.
CreateThreadFail ==
    /\ Alive
    /\ dpc = "create"
    /\ di < num_thread
    /\ di' = di + 1
    /\ UNCHANGED <<N, T, args, steps, mem, dpc, num_thread, ChunkSize, cnum, total_completed,
                   mvars, wvars, frozen, frz>>

\* _dispatch_worker, lines 220-221: pthread_join on the uninitialised word of
\* a thread that was never created.  The call returns an error code, which is
\* dropped, or it brings the process down (or it never returns).
JoinGarbage ==
    /\ Alive
    /\ dpc = "join"
    /\ di < num_thread
    /\ pc[di] = "none"
    /\ \/ dpc' = "join" /\ di' = di + 1
       \/ dpc' = "aborted" /\ di' = di
    /\ UNCHANGED <<N, T, args, steps, mem, num_thread, ChunkSize, cnum, total_completed,
                   mvars, wvars, frozen, frz>>

\* Dispatch calls with a queue for every thread, in which pthread_create may
\* fail.
InitSpawn == InitOf(MaxN, MaxT) /\ N >= T /\ steps = UnitSteps

SpawnNext ==
    \/ Next
    \/ CreateThreadFail
    \/ JoinGarbage

SpawnSpec == InitSpawn /\ [][SpawnNext]_vars

\* ------------------------------------------------------------------ observations
\* No index was passed to the kernel twice.
NoDuplicate ==
    \A w1 \in Slots, w2 \in Slots :
        \A k1 \in 1 .. Len(calls[w1]), k2 \in 1 .. Len(calls[w2]) :
            calls[w1][k1].idx = calls[w2][k2].idx => (w1 = w2 /\ k1 = k2)

\* Every index passed to the kernel lies in [0, N).
InRange ==
    \A w \in Slots : \A k \in 1 .. Len(calls[w]) : calls[w][k].idx \in 0 .. (N - 1)

\* The indices passed to the kernel so far.
Invoked == UNION {{calls[w][k].idx : k \in 1 .. Len(calls[w])} : w \in Slots}

\* The number of kernel invocations made so far.
RECURSIVE CountCalls(_)
CountCalls(n) == IF n = 0 THEN 0 ELSE Len(calls[n - 1]) + CountCalls(n - 1)

\* ------------------------------------------------------------------ claims

\* C1: in every run, for every N >= 0 and T >= 1, no index is passed to the
\* kernel more than once and every index passed to the kernel lies in [0, N),
\* whether it was claimed by draining or by stealing.
C1_UniqueInRange == NoDuplicate /\ InRange

\* C2: when the dispatch call returns, the kernel has been invoked exactly N
\* times, once for each index of [0, N).
C2_ExactlyOnceAtReturn ==
    dpc = "returned" => (CountCalls(T) = N /\ Invoked = 0 .. (N - 1))

\* The queues and contexts are built and no worker has run yet.
Built == dpc \in {"popc", "create", "join"} /\ \A w \in Slots : pc[w] \in {"none", "drain_lock"}

\* chunk and T' as the claim defines them from N and T.
ClaimChunk == IF N \div T > 0 THEN N \div T ELSE 1
ClaimThreads == IF N \div T > 0 THEN T ELSE N

\* The indices of the half-open range held by queue i.
QueueRange(i) == wq[i].next .. (wq[i].last - 1)

\* C3: for N >= 1, the queues built before any worker starts are
\* queue i = [i*chunk, (i+1)*chunk) for i < T'-1 and queue T'-1 = [(T'-1)*chunk, N):
\* contiguous, pairwise disjoint, covering exactly [0, N), the whole remainder
\* of the division in the last queue.
C3_Partition ==
    (N >= 1 /\ Built) =>
        /\ num_thread = ClaimThreads
        /\ \A i \in 0 .. (ClaimThreads - 2) :
             /\ wq[i].next = i * ClaimChunk
             /\ wq[i].last = (i + 1) * ClaimChunk
             /\ wq[i + 1].next = wq[i].last
        /\ wq[ClaimThreads - 1].next = (ClaimThreads - 1) * ClaimChunk
        /\ wq[ClaimThreads - 1].last = N
        /\ wq[0].next = 0
        /\ \A i \in 0 .. (ClaimThreads - 1), j \in 0 .. (ClaimThreads - 1) :
             i # j => QueueRange(i) \cap QueueRange(j) = {}
        /\ UNION {QueueRange(i) : i \in 0 .. (ClaimThreads - 1)} = 0 .. (N - 1)
        /\ wq[ClaimThreads - 1].last - wq[ClaimThreads - 1].next
             = ClaimChunk + (N - ClaimThreads * ClaimChunk)

\* The queues are built for an N that T does not divide, on three or more queues.
C3_Witness ==
    /\ Built
    /\ N >= 1
    /\ num_thread >= 3
    /\ N % T # 0
    /\ wq[num_thread - 1].last - wq[num_thread - 1].next > ChunkSize

\* C6: when 1 <= N < T the dispatcher builds exactly N queues, queue i holding
\* [i, i+1), initialises exactly the contexts 0..N-1 with id = index, and
\* creates exactly the threads 0..N-1; the other T-N are never created.
C6_UnderSubscription ==
    (1 <= N /\ N < T) =>
        /\ \A w \in Slots : w >= N => (pc[w] = "none" /\ wqSet[w] = {} /\ w \notin ctxSet)
        /\ dpc = "join" =>
             /\ \A i \in 0 .. (N - 1) :
                  /\ wqSet[i] = {"next", "last", "lock"}
                  /\ wq[i] = [next |-> i, last |-> i + 1, lock |-> 0]
                  /\ ctx[i] = [id |-> i, completed |-> 0]
             /\ ctxSet = 0 .. (N - 1)
             /\ {w \in Slots : pc[w] # "none"} = 0 .. (N - 1)

\* Every thread of an under-subscribed call was created: two of four requested.
C6_Witness ==
    /\ dpc = "join"
    /\ N = 2
    /\ T = 4
    /\ {w \in Slots : pc[w] # "none"} = {0, 1}

\* C7: with N = 0 the dispatcher initialises no queue and no context, stores to
\* no queue slot at all, creates no thread, invokes no kernel and returns normally.
C7_EmptyCall ==
    N = 0 =>
        /\ \A i \in Slots : wqSet[i] = {} /\ pc[i] = "none" /\ calls[i] = <<>>
        /\ ctxSet = {}
        /\ oob = {}
        /\ dpc # "aborted"

\* Worker w is between a successful Lock and the Unlock of queue q.
Holds(w, q) ==
    \/ pc[w] \in {"drain_item", "drain_inc", "drain_last", "drain_unlock"} /\ ctx[w].id = q
    \/ pc[w] \in {"steal_test", "steal_dec", "steal_item", "steal_unlock",
                  "steal_unlock_else"} /\ si[w] = q

\* Worker w is attempting the Lock of queue q.
Wants(w, q) ==
    \/ pc[w] = "drain_lock" /\ ctx[w].id = q
    \/ pc[w] = "steal_lock" /\ si[w] = q

\* C4: at most one thread at a time is between a successful Lock and its
\* Unlock on the same queue, and the lock word is 1 while one is.
C4_MutualExclusion ==
    \A q \in Slots :
        /\ Cardinality({w \in Slots : Holds(w, q)}) <= 1
        /\ (\E w \in Slots : Holds(w, q)) => wq[q].lock = 1

\* A thief is inside the critical section of a queue whose owner is attempting
\* its Lock.
C4_Witness ==
    \E q \in Slots, w1 \in Slots, w2 \in Slots :
        /\ w1 # q /\ Holds(w1, q)
        /\ w2 = q /\ Wants(w2, q)

\* The queues the dispatcher has initialised.
Queues == {q \in Slots : q < num_thread /\ wqSet[q] = {"next", "last", "lock"}
                         /\ dpc \notin {"setup", "plan"}}

\* The owner of queue q is past the increment of next that it made on reading
\* an item that is not below last.
Overshot(q) ==
    /\ pc[q] \in {"drain_last", "drain_unlock", "drain_test", "steal_loop", "steal_for",
                  "steal_lock", "steal_test", "steal_dec", "steal_item", "steal_unlock",
                  "steal_work", "steal_count", "steal_mark", "steal_unlock_else", "done",
                  "killed"}
    /\ pc[q] \in {"drain_last", "drain_unlock", "drain_test"} => item[q] >= wq[q].last

\* C5 as stated: 0 <= next <= last <= N for every queue in every reachable state.
C5_NextLeLast ==
    \A q \in Queues : 0 <= wq[q].next /\ wq[q].next <= wq[q].last /\ wq[q].last <= N

\* C5, amended: 0 <= next <= last + 1 and 0 <= last <= N for every queue the
\* dispatcher initialised, in every reachable state; next = last + 1 exactly
\* from the moment the owner has incremented next on reading an exhausted
\* queue, and next <= last before it.
C5_NextLeLastPlusOne ==
    \A q \in Queues :
        /\ 0 <= wq[q].next
        /\ wq[q].next <= wq[q].last + 1
        /\ 0 <= wq[q].last
        /\ wq[q].last <= N
        /\ (wq[q].next = wq[q].last + 1) <=> Overshot(q)

\* A queue that lost its tail to a thief, drained to exhaustion by its owner,
\* which has terminated: next is one past last.
C5_Witness ==
    \E q \in Queues :
        /\ pc[q] = "done"
        /\ wq[q].next = wq[q].last + 1
        /\ wq[q].last < N
        /\ \E w \in Slots \ {q} : \E k \in 1 .. Len(calls[w]) :
             calls[w][k].kind = "steal" /\ calls[w][k].q = q

\* C8: if the threads are scheduled fairly, every created worker eventually
\* reaches the end of its body and the dispatch call eventually returns.
C8_Terminates ==
    <>(dpc = "returned" /\ \A w \in Slots : pc[w] \in {"none", "done"})

\* The indices worker a stole from queue b, in the order it invoked the kernel.
RECURSIVE StolenFrom(_, _, _)
StolenFrom(a, b, k) ==
    IF k = 0 THEN <<>>
    ELSE IF calls[a][k].kind = "steal" /\ calls[a][k].q = b
         THEN Append(StolenFrom(a, b, k - 1), calls[a][k].idx)
         ELSE StolenFrom(a, b, k - 1)

\* The last n elements of sequence s.
LastN(s, n) == SubSeq(s, Len(s) - n + 1, Len(s))

\* Worker a has exhausted its own queue, worker b is stopped and its queue
\* still holds unclaimed indices.
C9_Stopped(a, b) ==
    /\ frozen = {b}
    /\ wq[b].next < wq[b].last
    /\ pc[a] \in {"steal_loop", "steal_for", "steal_lock", "steal_test", "steal_dec",
                  "steal_item", "steal_unlock", "steal_work", "steal_count", "steal_mark",
                  "steal_unlock_else"}

\* Worker a has terminated having claimed every index that was left in the
\* queue of b when b was stopped, from the tail down, each once; no index was
\* claimed twice and the queue of b holds none any more.
C9_Claimed(a, b) ==
    /\ pc[a] = "done"
    /\ frozen = {b}
    /\ wq[b].next >= wq[b].last
    /\ wq[b].last = frz.next
    /\ Len(StolenFrom(a, b, Len(calls[a]))) >= frz.last - frz.next
    /\ LastN(StolenFrom(a, b, Len(calls[a])), frz.last - frz.next)
         = [k \in 1 .. (frz.last - frz.next) |-> frz.last - k]
    /\ \A i \in frz.next .. (frz.last - 1) :
         Cardinality({k \in 1 .. Len(calls[a]) : calls[a][k].idx = i}) = 1
    /\ \A i \in frz.next .. (frz.last - 1) :
         \A k \in 1 .. Len(calls[b]) : calls[b][k].idx # i
    /\ NoDuplicate

\* C9: with two workers, if worker A has exhausted its own queue while the queue
\* of worker B still has unclaimed indices and B takes no further step, holding
\* no lock, then A eventually claims every remaining index of B's queue from
\* the tail, in descending order, each exactly once.
C9_StealAll ==
    \A b \in {0, 1} : C9_Stopped(1 - b, b) ~> C9_Claimed(1 - b, b)

\* Worker 0 has terminated after stealing both indices that were left in the
\* queue of worker 1 when worker 1 was stopped.
C9_Witness ==
    /\ C9_Claimed(0, 1)
    /\ frz.last - frz.next >= 2

\* C10: for N >= 1, once all workers have terminated each worker's completed
\* counter equals the number of kernel invocations it made, the counters sum to
\* N, and the end-of-run check passes.
C10_PostCheckPasses ==
    (N >= 1 /\ dpc \in {"check", "returned", "aborted"}) =>
        /\ \A w \in Slots : pc[w] = "done" => ctx[w].completed = Len(calls[w])
        /\ dpc = "check" =>
             SumCompleted([w \in Slots |-> IF pc[w] = "done" THEN ctx[w].completed ELSE 0], T)
               = N
        /\ dpc \in {"returned", "aborted"} => (total_completed = N /\ dpc = "returned")

\* The memory a dispatch call over N items leaves behind when the kernel ran
\* exactly on the indices of [0, N): it depends on the buffers, the strides
\* and N only.
ExpectedMem ==
    LET out_index == Len(ARGTYS) + 1
        OutAddr(i) == ElemAddr(args[out_index], steps[out_index], i)
        InData(i) == [k \in 1 .. Len(ARGTYS) |-> InitMem[ElemAddr(args[k], steps[k], i)]]
    IN [a \in Addr |->
          IF \E i \in 0 .. (N - 1) : OutAddr(i) = a
          THEN Kernel(InData(CHOOSE i \in 0 .. (N - 1) : OutAddr(i) = a))
          ELSE InitMem[a]]

\* C11: for a pure kernel and fixed buffers and strides, the memory after the
\* dispatch call has returned is the same for every T >= 1 and every
\* interleaving: output[i] = f(inputs[i]) for every i in [0, N), and no other
\* cell was written.
C11_Deterministic == dpc = "returned" => mem = ExpectedMem

\* Worker w is at a call of Unlock; the queue it releases.
AtUnlock(w) == pc[w] \in {"drain_unlock", "steal_unlock", "steal_unlock_else"}
UnlockQueue(w) == IF pc[w] = "drain_unlock" THEN ctx[w].id ELSE si[w]

\* C12: whenever the compare-and-exchange of Unlock finds the lock word in a
\* state other than locked, the thread aborts at once instead of continuing,
\* and a call in which a thread aborted never returns normally.
C12_ViolationFatal ==
    /\ [][\A w \in Slots :
            (AtUnlock(w) /\ pc'[w] # pc[w] /\ ~UnlockOk(wq[UnlockQueue(w)].lock))
                => pc'[w] = "killed"]_vars
    /\ []((\E w \in Slots : pc[w] = "killed") => dpc # "returned")

\* The workers whose pthread_create has been attempted and has failed.
CreateFailed ==
    {i \in Slots : /\ i < num_thread
                   /\ pc[i] = "none"
                   /\ \/ dpc = "create" /\ i < di
                      \/ dpc \in {"join", "check", "returned", "aborted"}}

\* C13: if creating a worker thread fails, the dispatcher reports an error to
\* its caller instead of returning normally, it calls pthread_join only on
\* threads that were created, and when it is past the joins every thread that
\* was created has terminated.
C13_CreateFailureHandled ==
    /\ [](CreateFailed # {} => dpc # "returned")
    /\ [][(dpc = "join" /\ di < num_thread /\ (di' # di \/ dpc' # dpc))
              => pc[di] # "none"]_vars
    /\ [](dpc \in {"check", "returned"} => \A w \in Slots : pc[w] \in {"none", "done"})

\* The first worker thread has been created.
Launched == \E w \in Slots : pc[w] # "none"

\* C14: once the workers are launched, next of a queue never decreases and
\* last never increases; next changes only in a step of the queue's owner at
\* the increment of its drain loop, last only in a step of another worker at
\* the decrement of its steal check, and the writer holds the queue's lock.
C14_MonotoneUnderLock ==
    [][Launched =>
         \A q \in Slots :
            /\ "next" \in wqSet[q] =>
                 /\ wq'[q].next >= wq[q].next
                 /\ wq'[q].next # wq[q].next =>
                      (pc[q] = "drain_inc" /\ pc'[q] # pc[q] /\ ctx[q].id = q /\ Holds(q, q)
                       /\ wq[q].lock = 1)
            /\ "last" \in wqSet[q] =>
                 /\ wq'[q].last <= wq[q].last
                 /\ wq'[q].last # wq[q].last =>
                      \E w \in Slots \ {q} :
                          /\ pc[w] = "steal_dec" /\ pc'[w] # pc[w] /\ si[w] = q
                          /\ Holds(w, q) /\ wq[q].lock = 1]_vars

\* One queue has had an item drained by its owner and an item stolen by a peer.
C14_Witness ==
    \E q \in Slots, w1 \in Slots, w2 \in Slots :
        /\ \E k \in 1 .. Len(calls[w1]) : calls[w1][k].kind = "drain" /\ calls[w1][k].q = q
        /\ \E k \in 1 .. Len(calls[w2]) : calls[w2][k].kind = "steal" /\ calls[w2][k].q = q

\* C15: when a worker has left its steal loop after a sweep that stole
\* nothing, and ever after, no slot of the workqueues array that a sweep
\* visits, the worker's own queue included, holds an unclaimed index:
\* next >= last.
C15_DoneMeansEmpty ==
    \A w \in Slots :
        pc[w] = "done" =>
            \A q \in Slots :
                /\ {"next", "last"} \subseteq wqSet[q]
                /\ wq[q].next >= wq[q].last

\* A worker that stole has terminated while a peer is still running.
C15_Witness ==
    \E w \in Slots, v \in Slots :
        /\ pc[w] = "done"
        /\ \E k \in 1 .. Len(calls[w]) : calls[w][k].kind = "steal"
        /\ pc[v] \notin {"none", "done"}

\* Worker w is inside _do_work_stealing_check, between Lock and Unlock.
InCheck(w) ==
    pc[w] \in {"steal_test", "steal_dec", "steal_item", "steal_unlock", "steal_unlock_else"}

\* What a step does while worker w is inside the steal check of queue q.
StealCheckStep(w, q) ==
    /\ q # ctx[w].id /\ q # w
    /\ pc'[w] = pc[w] =>
         /\ "next" \in wqSet[q] => wq'[q].next = wq[q].next
         /\ "last" \in wqSet[q] => wq'[q].last = wq[q].last
         /\ wq'[q].lock = wq[q].lock
    /\ pc'[w] # pc[w] =>
         /\ \A q2 \in Slots \ {q} : wq'[q2] = wq[q2] /\ wqSet'[q2] = wqSet[q2]
         /\ pc[w] = "steal_test" =>
              /\ "next" \in wqSet[q] => wq'[q].next = wq[q].next
              /\ "last" \in wqSet[q] => wq'[q].last = wq[q].last
              /\ wq'[q].lock = 1
              /\ pc'[w] = IF wq'[q].next < wq'[q].last
                          THEN "steal_dec" ELSE "steal_unlock_else"
              /\ calls' = calls
         /\ pc[w] = "steal_dec" =>
              /\ wq[q].next < wq[q].last
              /\ wq'[q] = [wq[q] EXCEPT !.last = wq[q].last - 1]
              /\ pc'[w] = "steal_item"
              /\ calls' = calls
         /\ pc[w] = "steal_item" =>
              /\ wq' = wq
              /\ item'[w] = wq[q].last
              /\ pc'[w] = "steal_unlock"
              /\ calls' = calls
         /\ pc[w] = "steal_unlock" =>
              /\ wq[q].lock = 1
              /\ wq'[q] = [wq[q] EXCEPT !.lock = 0]
              /\ item[w] = wq[q].last
              /\ pc'[w] = "steal_work"
              /\ calls' = calls
         /\ pc[w] = "steal_unlock_else" =>
              /\ wq[q].next >= wq[q].last
              /\ wq[q].lock = 1
              /\ wq'[q] = [wq[q] EXCEPT !.lock = 0]
              /\ pc'[w] = "steal_for"
              /\ calls' = calls

\* C16: a steal check runs on a queue other than the worker's own and, while
\* the worker holds the lock, no other thread changes that queue.  If the
\* check finds next < last it decrements last by one, leaves next alone and
\* claims the index equal to the new last; otherwise it leaves next and last
\* alone and claims nothing.  It releases the lock in both cases, and none of
\* its steps changes another queue.
C16_StealCheckEffect ==
    [][\A w \in Slots :
          /\ InCheck(w) => StealCheckStep(w, si[w])
          /\ (pc[w] = "steal_work" /\ pc'[w] # pc[w]) =>
               /\ calls'[w] = Append(calls[w], [idx |-> item[w], kind |-> "steal",
                                                q |-> si[w]])
               /\ wq' = wq
          /\ pc[w] = "steal_lock" => si[w] # ctx[w].id]_vars

\* A worker has released the lock of a peer's queue after taking its tail:
\* the index it is about to pass to the kernel is the queue's new last.
C16_Witness ==
    \E w \in Slots :
        /\ pc[w] = "steal_work"
        /\ si[w] # w
        /\ si[w] < num_thread
        /\ item[w] = wq[si[w]].last
        /\ wq[si[w]].next <= item[w]
        /\ wq[si[w]].lock = 0

\* The state of the worker's state machine that position p belongs to:
\* 0 not started, 1 DRAIN_LOCAL, 2 STEAL, 3 DONE.
Phase(p) ==
    CASE p = "none" -> 0
      [] p \in {"drain_lock", "drain_item", "drain_inc", "drain_last", "drain_unlock",
                "drain_test", "drain_work", "drain_count"} -> 1
      [] p \in {"steal_loop", "steal_for", "steal_lock", "steal_test", "steal_dec",
                "steal_item", "steal_unlock", "steal_work", "steal_count", "steal_mark",
                "steal_unlock_else"} -> 2
      [] p = "done" -> 3
      [] OTHER -> 4

\* C17: a worker goes through DRAIN_LOCAL, STEAL and DONE in this order and
\* never back.  It enters STEAL, the only state in which it locks a peer's
\* queue, on its drain loop having read an item >= the last it read from its
\* own queue; from then on its own queue holds no unclaimed index.
C17_PhaseOrder ==
    /\ [][\A w \in Slots :
            /\ Phase(pc'[w]) \in {Phase(pc[w]), Phase(pc[w]) + 1}
            /\ Phase(pc'[w]) <= 3
            /\ (Phase(pc[w]) = 1 /\ Phase(pc'[w]) = 2) =>
                 (pc[w] = "drain_test" /\ item[w] >= last[w] /\ item[w] >= wq[w].last)
            /\ \A q \in Slots \ {w} :
                 (pc'[w] # pc[w] /\ wq[q].lock # 1 /\ wq'[q].lock = 1) =>
                     (Phase(pc[w]) = 2 /\ Phase(pc'[w]) = 2)]_vars
    /\ [](\A w \in Slots :
            Phase(pc[w]) \in {2, 3} =>
                (w < num_thread /\ ctx[w].id = w /\ wq[w].next > wq[w].last))

\* A worker that drained an item of its own queue holds the lock of a peer's
\* queue.
C17_Witness ==
    \E w \in Slots :
        /\ pc[w] = "steal_test"
        /\ si[w] # w
        /\ \E k \in 1 .. Len(calls[w]) : calls[w][k].kind = "drain"
        /\ wq[w].next > wq[w].last

\* C18: when the first worker thread is created every queue and every context
\* of the call is initialised; all num_thread threads exist before the first
\* pthread_join; the joins are made in ascending order of worker id, each
\* returning once its thread has terminated; the race check and the return
\* come after every worker has terminated.
C18_DispatcherOrder ==
    /\ []((dpc = "create" /\ di = 0) =>
            \A i \in 0 .. (num_thread - 1) :
                /\ wqSet[i] = {"next", "last", "lock"}
                /\ wq[i].lock = 0
                /\ i \in ctxSet
                /\ ctx[i] = [id |-> i, completed |-> 0]
                /\ pc[i] = "none")
    /\ [](Launched => dpc \in {"create", "join", "check", "returned", "aborted"})
    /\ [](dpc = "join" => \A i \in 0 .. (num_thread - 1) : pc[i] # "none")
    /\ [](dpc = "join" => \A i \in 0 .. (di - 1) : pc[i] = "done")
    /\ [][/\ (dpc = "create" /\ dpc' = "join") => di' = 0
          /\ (dpc = "join" /\ dpc' = "join" /\ di' # di) => (di' = di + 1 /\ pc[di] = "done")
          /\ (dpc = "join" /\ dpc' # "join") => (dpc' = "check" /\ di = num_thread)]_vars
    /\ [](dpc \in {"check", "returned", "aborted"} =>
            /\ \A i \in 0 .. (num_thread - 1) : pc[i] = "done"
            /\ \A w \in Slots : pc[w] \in {"none", "done"})

\* The dispatcher has joined worker 0 and waits in pthread_join for worker 1,
\* which is still running.
C18_Witness ==
    /\ dpc = "join"
    /\ di = 1
    /\ num_thread = 2
    /\ pc[0] = "done"
    /\ pc[1] \notin {"none", "done"}

\* C19: a step that invokes the kernel on index i loads argument k from
\* address args[k] + i * steps[k], for every k in argument order, and stores
\* the kernel's result at args[n] + i * steps[n], n being the number of
\* arguments; it changes no other cell, and no other step changes memory.
\* The strides are used as they are: a zero stride addresses the same element
\* for every i.
C19_KernelAddressing ==
    [][\A w \in Slots :
          IF calls'[w] # calls[w]
          THEN LET i == item[w]
                   n == Len(ARGTYS)
                   loaded == [k \in 1 .. n |-> mem[args[k] + i * steps[k]]]
               IN /\ calls'[w] = Append(calls[w], calls'[w][Len(calls'[w])])
                  /\ calls'[w][Len(calls'[w])].idx = i
                  /\ mem'[args[n + 1] + i * steps[n + 1]] = Kernel(loaded)
                  /\ \A a \in Addr \ {args[n + 1] + i * steps[n + 1]} : mem'[a] = mem[a]
                  /\ \A k \in 1 .. n : steps[k] = 0 => loaded[k] = mem[args[k]]
          ELSE (\A v \in Slots : calls'[v] = calls[v]) => mem' = mem]_vars

\* With a zero stride on the first argument and non-zero strides elsewhere,
\* two different indices have been processed: both results were computed from
\* the same first element and each from its own second element.
C19_Witness ==
    /\ steps[1] = 0
    /\ steps[2] # 0
    /\ steps[3] # 0
    /\ \E i \in Invoked, j \in Invoked :
         /\ i # j
         /\ mem[args[3] + i * steps[3]] =
              Kernel(<<InitMem[args[1]], InitMem[args[2] + i * steps[2]]>>)
         /\ mem[args[3] + j * steps[3]] =
              Kernel(<<InitMem[args[1]], InitMem[args[2] + j * steps[2]]>>)

\* C20: for every N >= 1 and T >= 1, once the dispatcher has planned the
\* chunks, common.num_thread equals the effective number of threads, and a
\* stealing worker locks and reads only queues with an index below it, all
\* of which the dispatcher has initialised.
C20_SweepBound ==
    (N >= 1 /\ dpc \notin {"setup", "plan"}) =>
        /\ cnum = num_thread
        /\ \A w \in Slots :
             (pc[w] = "steal_lock" \/ InCheck(w)) =>
                 (si[w] \in 0 .. (num_thread - 1) /\ si[w] \in Queues)

\* C21: the race check reads the completed counters of exactly the contexts
\* the dispatcher initialised, one per effective thread, never that of a
\* context left uninitialised because N < T or N = 0; so a call in which
\* every index of [0, N) was passed to the kernel exactly once is not aborted
\* by the check.
C21_CheckReadsInitialised ==
    /\ dpc = "check" =>
         /\ CheckedContexts(T, num_thread) = 0 .. (num_thread - 1)
         /\ CheckedContexts(T, num_thread) \subseteq ctxSet
    /\ dpc = "aborted" => ~(NoDuplicate /\ Invoked = 0 .. (N - 1))

\* C22: in a call with N >= T >= 1 and no store to a lock word from outside
\* the protocol, the lock word of a queue is 1 exactly while one worker is
\* between its successful Lock and its Unlock of that queue; only that
\* worker's Unlock resets it, so every Unlock finds the word locked and no
\* worker reaches the unreachable instruction.
C22_UnlockFindsLocked ==
    /\ [](N >= T =>
            /\ \A w \in Slots : pc[w] # "killed"
            /\ \A w \in Slots : AtUnlock(w) =>
                 /\ UnlockOk(wq[UnlockQueue(w)].lock)
                 /\ \A v \in Slots \ {w} : ~Holds(v, UnlockQueue(w))
            /\ \A q \in Queues :
                 wq[q].lock = 1 <=> \E w \in Slots : Holds(w, q))
    /\ [][N >= T =>
            \A q \in Queues :
                /\ (wq[q].lock = 1 /\ wq'[q].lock # 1) =>
                     \E w \in Slots :
                         /\ AtUnlock(w) /\ UnlockQueue(w) = q /\ Holds(w, q)
                         /\ pc'[w] # pc[w] /\ ~Holds(w, q)'
                         /\ wq'[q].lock = 0
                /\ (wq[q].lock # 1 /\ wq'[q].lock = 1) =>
                     \E w \in Slots :
                         /\ pc[w] \in {"drain_lock", "steal_lock"}
                         /\ ~Holds(w, q) /\ Holds(w, q)']_vars

\* In a call with N >= T a thief is at the Unlock of a peer's queue whose
\* owner, having drained an item, is attempting its Lock.
C22_Witness ==
    /\ N >= T
    /\ \E w \in Slots :
         /\ pc[w] = "steal_unlock"
         /\ si[w] \in Slots \ {w}
         /\ pc[si[w]] = "drain_lock"
         /\ Len(calls[si[w]]) >= 1

\* A step of worker w that takes the lock of queue q, and one that releases it.
Acquires(w, q) ==
    /\ pc'[w] # pc[w]
    /\ wq[q].lock # 1 \/ "lock" \notin wqSet[q]
    /\ wq'[q].lock = 1
Releases(w, q) ==
    /\ pc'[w] # pc[w]
    /\ wq[q].lock = 1
    /\ wq'[q].lock = 0

\* C23: a worker holds the lock of a queue from a step that takes it to its
\* next step that releases it, and at no other time.  It holds at most one
\* lock; a step that takes a lock or invokes the kernel is made holding none;
\* while it holds the lock of a queue its steps change nothing in shared
\* memory but that queue: no other queue, no completed counter, no buffer.
C23_ShortCriticalSection ==
    /\ [](\A w \in Slots : Cardinality({q \in Slots : Holds(w, q)}) <= 1)
    /\ [][\A w \in Slots :
            /\ \A q \in Slots :
                 /\ (~Holds(w, q) /\ Holds(w, q)') =>
                      (Acquires(w, q) /\ \A q2 \in Slots : ~Holds(w, q2))
                 /\ (Holds(w, q) /\ ~Holds(w, q)') => Releases(w, q)
                 /\ (Holds(w, q) /\ pc'[w] # pc[w]) =>
                      /\ \A q2 \in Slots \ {q} : wq'[q2] = wq[q2] /\ wqSet'[q2] = wqSet[q2]
                      /\ ctx' = ctx
                      /\ mem' = mem
                      /\ calls' = calls
                      /\ \A q2 \in Slots : ~Acquires(w, q2)
            /\ calls'[w] # calls[w] =>
                 \A q \in Slots : ~Holds(w, q) /\ ~Holds(w, q)']_vars

\* Two workers are inside critical sections at once, each holding the lock of
\* the other's queue and no other, while a kernel call has been made.
C23_Witness ==
    \E w \in Slots, v \in Slots :
        /\ w # v
        /\ InCheck(w) /\ si[w] = v
        /\ InCheck(v) /\ si[v] = w
        /\ wq[w].lock = 1
        /\ wq[v].lock = 1
        /\ Len(calls[w]) >= 1

====
